---- MODULE Spec2Model ----
(***************************************************************************)
(* A model of the actor-critic numerical core of continuous-rl:            *)
(*   - nn.py:        copy_buffer, soft_update, hard_update                 *)
(*   - a2cvalue.py:  A2CValue (value / optimize) and A2CValueCritic        *)
(*                   (critic / optimize)                                   *)
(*   - ppo_actor.py: loss                                                  *)
(*   - a2cactor.py:  A2CActorContinuous.act                                *)
(*                                                                         *)
(* Tensors hold floating-point numbers.  A number is modelled as an exact  *)
(* rational or one of the three non-finite floats (nan, +inf, -inf), with  *)
(* the IEEE rules for the non-finite cases (0 * inf = nan, inf - inf =     *)
(* nan, nan absorbs).  Rounding of finite results is outside the model.    *)
(* A trajectory batch holds one episode and every parameter tensor one     *)
(* element, so tensor shapes other than the time and item dimensions are   *)
(* outside the model.                                                      *)
(*                                                                         *)
(* Five specifications share the variables:                                *)
(*   SpecSync      soft_update / hard_update on any two networks           *)
(*   SpecCritic    A2CValueCritic.critic on any trajectory batch           *)
(*   SpecOptimize  A2CValue.optimize / A2CValueCritic.optimize from        *)
(*                 construction                                            *)
(*   SpecPPO       the PPO loss on any batch of items                      *)
(*   SpecAct       A2CActorContinuous.act on any policy output             *)
(***************************************************************************)
EXTENDS Integers, Sequences, FiniteSets, TLC

VARIABLES
    net,          \* the live network (A2CValue._v_function / soft_update's net)
    target_net,   \* the target network (A2CValue._target_v_function / target_net)
    gamma,        \* A2CValueCritic._gamma
    tau,          \* the smoothing factor handed to soft_update by A2CValue.optimize
    attrs,        \* attributes present on the critic objects that src's __init__ never assigns
    ncalls,       \* optimize calls made so far
    call          \* the last call: its operation, inputs, outcome

vars == <<net, target_net, gamma, tau, attrs, ncalls, call>>

(***************************************************************************)
(* Bounds of the model.                                                    *)
(***************************************************************************)
MaxParams == 2      \* parameter tensors of a network in the sync model
MaxBufs == 1        \* buffers of a network in the sync model
MaxLen == 3         \* timesteps of a trajectory
MaxCalls == 2       \* optimize calls in one behaviour
MaxItems == 2       \* items of a PPO batch
MaxActions == 2     \* components of a continuous action

(***************************************************************************)
(* Floating-point numbers: exact rationals n/d in lowest terms, and the    *)
(* non-finite values.                                                      *)
(***************************************************************************)
Abs(x) == IF x < 0 THEN -x ELSE x

Min(a, b) == IF a <= b THEN a ELSE b

RECURSIVE GCD(_, _)
GCD(a, b) == IF b = 0 THEN a ELSE GCD(b, a % b)

Fin(n, d) ==
    LET s == IF d < 0 THEN -1 ELSE 1
        g == GCD(Abs(n), Abs(d))
    IN  [k |-> "fin", n |-> (s * n) \div g, d |-> Abs(d) \div g]

NaN == [k |-> "nan", n |-> 0, d |-> 1]
PInf == [k |-> "pinf", n |-> 0, d |-> 1]
NInf == [k |-> "ninf", n |-> 0, d |-> 1]
Zero == Fin(0, 1)
One == Fin(1, 1)
Half == Fin(1, 2)

IsFinite(x) == x.k = "fin"

Sign(x) ==
    CASE x.k = "pinf" -> 1
      [] x.k = "ninf" -> -1
      [] x.k = "nan" -> 0
      [] OTHER -> IF x.n > 0 THEN 1 ELSE IF x.n < 0 THEN -1 ELSE 0

Neg(x) ==
    CASE x.k = "fin" -> Fin(-x.n, x.d)
      [] x.k = "pinf" -> NInf
      [] x.k = "ninf" -> PInf
      [] OTHER -> NaN

Add(a, b) ==
    IF a.k = "nan" \/ b.k = "nan" THEN NaN
    ELSE IF a.k = "fin" /\ b.k = "fin" THEN Fin(a.n * b.d + b.n * a.d, a.d * b.d)
    ELSE IF a.k = "fin" THEN b
    ELSE IF b.k = "fin" THEN a
    ELSE IF a.k = b.k THEN a
    ELSE NaN

Sub(a, b) == Add(a, Neg(b))

Mul(a, b) ==
    IF a.k = "nan" \/ b.k = "nan" THEN NaN
    ELSE IF a.k = "fin" /\ b.k = "fin" THEN Fin(a.n * b.n, a.d * b.d)
    ELSE IF Sign(a) * Sign(b) = 0 THEN NaN
    ELSE IF Sign(a) * Sign(b) > 0 THEN PInf
    ELSE NInf

\* a > b as the float comparison: false when either side is nan
Gt(a, b) ==
    /\ a.k # "nan"
    /\ b.k # "nan"
    /\ Sign(Sub(a, b)) > 0
    /\ a # b

RECURSIVE Pow(_, _)
Pow(x, t) == IF t = 0 THEN One ELSE Mul(x, Pow(x, t - 1))

RECURSIVE Sum(_)
Sum(s) == IF Len(s) = 0 THEN Zero ELSE Add(Head(s), Sum(Tail(s)))

\* torch's mean of a one-dimensional tensor (nan for an empty one)
Mean(s) ==
    IF Len(s) = 0 THEN NaN
    ELSE IF IsFinite(Sum(s)) THEN Fin(Sum(s).n, Sum(s).d * Len(s))
    ELSE Sum(s)

\* every sequence over S of length lo..hi
SeqsOf(S, lo, hi) == UNION {[1..n -> S] : n \in lo..hi}

(***************************************************************************)
(* Networks: the parameters and the buffers, in the order .parameters()    *)
(* and .buffers() yield them.                                              *)
(***************************************************************************)
Network(ps, bs) == [params |-> ps, buffers |-> bs]

ZipLen(a, b) == Min(Len(a), Len(b))

\* nn.py copy_buffer: zip() stops at the shorter of the two buffer lists
copy_buffer(n, t) ==
    [i \in 1..Len(t.buffers) |->
        IF i <= ZipLen(t.buffers, n.buffers) THEN n.buffers[i] ELSE t.buffers[i]]

\* a soft_update whose blend weights are swapped (tau weighs the live parameter)
soft_update_swapped(n, t, x) ==
    Network([i \in 1..Len(t.params) |->
                IF i <= ZipLen(t.params, n.params)
                THEN Add(t.params[i], Mul(x, Sub(n.params[i], t.params[i])))
                ELSE t.params[i]],
            copy_buffer(n, t))

\* nn.py soft_update: target_param.add_(1 - tau, param - target_param)
soft_update(n, t, x) ==
    Network([i \in 1..Len(t.params) |->
                IF i <= ZipLen(t.params, n.params)
                THEN Add(t.params[i], Mul(Sub(One, x), Sub(n.params[i], t.params[i])))
                ELSE t.params[i]],
            copy_buffer(n, t))

\* a hard_update that leaves the last zipped parameter behind
hard_update_short(n, t) ==
    Network([i \in 1..Len(t.params) |->
                IF i < ZipLen(t.params, n.params) THEN n.params[i] ELSE t.params[i]],
            copy_buffer(n, t))

\* nn.py hard_update: target_param.copy_(param)
hard_update(n, t) ==
    Network([i \in 1..Len(t.params) |->
                IF i <= ZipLen(t.params, n.params) THEN n.params[i] ELSE t.params[i]],
            copy_buffer(n, t))

SameTopology(n, t) ==
    /\ Len(n.params) = Len(t.params)
    /\ Len(n.buffers) = Len(t.buffers)

NoCall == [op |-> "none"]

(***************************************************************************)
(* The sync model: any two networks, and calls of soft_update and          *)
(* hard_update on them.                                                    *)
(***************************************************************************)
ParamVals == {Zero, One, PInf}
BufVals == {Zero, One}
SyncTaus == {Zero, One}

SyncNets ==
    {Network(ps, bs) : ps \in SeqsOf(ParamVals, 0, MaxParams),
                       bs \in SeqsOf(BufVals, 0, MaxBufs)}

InitSync ==
    /\ net \in SyncNets
    /\ target_net \in SyncNets
    /\ gamma = One
    /\ tau = One
    /\ attrs = {}
    /\ ncalls = 0
    /\ call = NoCall

SoftUpdate(x) ==
    /\ target_net' = soft_update(net, target_net, x)
    /\ call' = [op |-> "soft_update", tau |-> x, pre |-> target_net, status |-> "returned"]
    /\ UNCHANGED <<net, gamma, tau, attrs, ncalls>>

HardUpdate ==
    /\ target_net' = hard_update(net, target_net)
    /\ call' = [op |-> "hard_update", pre |-> target_net, status |-> "returned"]
    /\ UNCHANGED <<net, gamma, tau, attrs, ncalls>>

NextSync ==
    \/ \E x \in SyncTaus : SoftUpdate(x)
    \/ HardUpdate

SpecSync == InitSync /\ [][NextSync]_vars

(***************************************************************************)
(* The value function pair of a critic.  The value function is a table:    *)
(* one parameter per observation, V(obs) = params[obs].                    *)
(***************************************************************************)
Obs == {1, 2}
ValueVals == {Zero, One, PInf}
Gammas == {Half, One}
Taus == {Zero, Half, One}
Rewards == {Zero, One}

ValueNets == {Network(ps, <<>>) : ps \in [1..Cardinality(Obs) -> ValueVals]}

\* ParametricFunction.__call__ of a value function
Forward(n, obs) == n.params[obs]

\* A2CValue.value
value(obs, target) ==
    IF target THEN Forward(target_net, obs) ELSE Forward(net, obs)

(***************************************************************************)
(* Trajectory batches (one episode): observations, rewards and done flags  *)
(* of `length` timesteps; done is 0 before the last step.                  *)
(***************************************************************************)
BatchTraj(o, r, d) == [obs |-> o, rewards |-> r, done |-> d]

length(traj) == Len(traj.obs)

Trajs ==
    UNION {{BatchTraj(o, r, [i \in 1..n |-> IF i = n THEN d ELSE Zero]) :
                o \in [1..n -> Obs], r \in [1..n -> Rewards], d \in {Zero, One}} :
           n \in 0..MaxLen}

\* BatchTraj.splitlast: (the batch without its last step, the last step)
splitlast(traj) ==
    LET L == length(traj)
    IN  [trunctraj |-> BatchTraj(SubSeq(traj.obs, 1, L - 1),
                                 SubSeq(traj.rewards, 1, L - 1),
                                 SubSeq(traj.done, 1, L - 1)),
         lastobs |-> traj.obs[L],
         done |-> traj.done[L]]

\* torch's broadcast of the last dimension: sizes agree or one of them is 1
Broadcastable(n, m) == n = m \/ n = 1 \/ m = 1

BroadcastMul(a, b) ==
    LET n == Len(a)
        m == Len(b)
    IN  [i \in 1..(IF n = 1 THEN m ELSE n) |->
            Mul(a[IF n = 1 THEN 1 ELSE i], b[IF m = 1 THEN 1 ELSE i])]

\* A2CValueCritic.critic
critic(traj, target) ==
    IF length(traj) < 1
    THEN [status |-> "raised", error |-> "ShapeError"]
    ELSE
      LET L == length(traj)
          s == splitlast(traj)
          discounts == [t \in 1..L |-> Pow(gamma, t - 1)]
      IN  IF ~Broadcastable(Len(s.trunctraj.rewards), Len(discounts))
          THEN [status |-> "raised", error |-> "RuntimeError"]
          ELSE
            LET discounted_rewards == BroadcastMul(s.trunctraj.rewards, discounts)
                rewardsum == Sum(discounted_rewards)
                bootstrap == Mul(Mul(Sub(One, s.done), Pow(gamma, L)),
                                 value(s.lastobs, target))
            IN  [status |-> "returned",
                 rewardsum |-> rewardsum,
                 bootstrap |-> bootstrap,
                 value |-> Add(rewardsum, bootstrap)]

\* a call of critic(traj, target) that has not run yet
CriticCalls ==
    {[op |-> "critic", status |-> "called", traj |-> traj, target |-> target] :
        traj \in Trajs, target \in BOOLEAN}

Critic ==
    /\ call.op = "critic"
    /\ call.status = "called"
    /\ call' = critic(call.traj, call.target)
                 @@ [op |-> "critic", traj |-> call.traj, target |-> call.target]
    /\ UNCHANGED <<net, target_net, gamma, tau, attrs, ncalls>>

\* any pair an optimize call can leave behind, any discount, any call
InitCritic ==
    /\ net \in ValueNets
    /\ target_net \in ValueNets
    /\ gamma \in Gammas
    /\ tau = One
    /\ attrs = {}
    /\ ncalls = 0
    /\ call \in CriticCalls

NextCritic == Critic

SpecCritic == InitCritic /\ [][NextCritic]_vars

(***************************************************************************)
(* The critic's optimize calls.  A2CValue.__init__ assigns _lr,            *)
(* _v_function, _target_v_function, _optimizer and _device, and reads      *)
(* self._dt; A2CValue.optimize reads self._tau; A2CValueCritic.optimize    *)
(* reads self._optimizer, which A2CValueCritic.__init__ never assigns.     *)
(* attrs holds which of _tau and the critic's _optimizer exist on the      *)
(* constructed objects: reading one that does not raises AttributeError.   *)
(***************************************************************************)
Sq(x) == Mul(x, x)

Expected == {Zero, One, PInf}

\* the parameter values an optimizer step can leave: finite after a finite
\* loss, non-finite after a non-finite one
StepVals(loss) == IF IsFinite(loss) THEN {Zero, One} ELSE {NaN, PInf}

\* optimizer.step() after backward() of a loss on V(obs): moves that parameter
Step(n, obs, w) == [n EXCEPT !.params[obs] = w]

\* the attributes a constructed critic may hold beyond those __init__ assigns
ExtraAttrs == SUBSET {"_optimizer", "_tau"}

\* A2CValue.__init__ (the target is a deep copy of the live function)
InitOptimize ==
    /\ net \in ValueNets
    /\ target_net = net
    /\ gamma \in Gammas
    /\ tau \in Taus
    /\ attrs \in ExtraAttrs
    /\ ncalls = 0
    /\ call = NoCall

\* A2CValue.optimize(obs, expected_v)
A2CValue_optimize(obs, expected_v) ==
    LET v == Forward(net, obs)
        v_loss == Sq(Sub(v, expected_v))
    IN  /\ ncalls < MaxCalls
        /\ ncalls' = ncalls + 1
        /\ \E w \in StepVals(v_loss) :
            /\ net' = Step(net, obs, w)
            /\ IF "_tau" \in attrs
               THEN /\ target_net' = soft_update(net', target_net, tau)
                    /\ call' = [op |-> "A2CValue.optimize", status |-> "returned",
                                trace |-> <<"zero_grad", "backward", "step", "soft_update">>,
                                loss |-> v_loss,
                                pre |-> [net |-> net, target_net |-> target_net]]
               ELSE /\ target_net' = target_net
                    /\ call' = [op |-> "A2CValue.optimize", status |-> "raised",
                                error |-> "AttributeError",
                                trace |-> <<"zero_grad", "backward", "step">>,
                                loss |-> v_loss,
                                pre |-> [net |-> net, target_net |-> target_net]]
        /\ UNCHANGED <<gamma, tau, attrs>>

\* A2CValueCritic.optimize(traj)
A2CValueCritic_optimize(traj) ==
    LET c == critic(traj, TRUE)
        pre == [net |-> net, target_net |-> target_net]
    IN  /\ ncalls < MaxCalls
        /\ ncalls' = ncalls + 1
        /\ IF c.status = "raised"
           THEN /\ call' = [op |-> "A2CValueCritic.optimize", status |-> "raised",
                            error |-> c.error, trace |-> <<>>, pre |-> pre]
                /\ UNCHANGED <<net, target_net>>
           ELSE
             LET v == value(traj.obs[1], FALSE)
                 loss == Mean(<<Sq(Sub(v, c.value))>>)
             IN  IF "_optimizer" \notin attrs
                 THEN /\ call' = [op |-> "A2CValueCritic.optimize", status |-> "raised",
                                  error |-> "AttributeError", trace |-> <<>>,
                                  loss |-> loss, pre |-> pre]
                      /\ UNCHANGED <<net, target_net>>
                 ELSE \E w \in StepVals(loss) :
                        /\ net' = Step(net, traj.obs[1], w)
                        /\ target_net' = target_net
                        /\ call' = [op |-> "A2CValueCritic.optimize", status |-> "returned",
                                    trace |-> <<"zero_grad", "backward", "step">>,
                                    loss |-> loss, pre |-> pre]
        /\ UNCHANGED <<gamma, tau, attrs>>

NextOptimize ==
    \/ \E obs \in Obs, expected_v \in Expected : A2CValue_optimize(obs, expected_v)
    \/ \E traj \in Trajs : A2CValueCritic_optimize(traj)

SpecOptimize == InitOptimize /\ [][NextOptimize]_vars

(***************************************************************************)
(* The PPO loss.  A log-domain number x (a log-probability, a log-ratio,   *)
(* np.log's result) is held as [exp |-> e^x]: log and exp are exact and    *)
(* monotone, a difference of logs is a quotient, and clamping a log        *)
(* against a bound compares the exponentials.                              *)
(***************************************************************************)
Two == Fin(2, 1)
Four == Fin(4, 1)

\* np.log of a positive number, and of 0 (-inf, whose exponential is 0)
LogOf(q) == [exp |-> q]

\* Tensor.exp()
ExpOf(x) == x.exp

\* a - b in the log domain, both finite
LogSub(a, b) == [exp |-> Fin(a.exp.n * b.exp.d, a.exp.d * b.exp.n)]

\* torch.clamp(x, max=m)
clamp_max(x, m) == IF Gt(x.exp, m.exp) THEN m ELSE x

\* torch.clamp(x, min=m)
clamp_min(x, m) == IF Gt(m.exp, x.exp) THEN m ELSE x

LogProbs == {LogOf(One), LogOf(Four)}
OldLogProbs == {LogOf(Two), LogOf(Four)}
Advantages == {Fin(-1, 1), Zero, One, Two}
Entropies == {Zero, One}
KLs == {Zero, One}
CEntropies == {Zero, Half}
CKLs == {Zero, Fin(1, 10)}
EpsClamps == {Fin(-1, 2), Half, One}

None == [given |-> FALSE, kl |-> <<>>]

Uniform(n, x) == [i \in 1..n |-> x]

\* a call of loss(...) that has not run yet
LossCall(lp, e, adv, ce, eps, ck, olp, od) ==
    [op |-> "loss", status |-> "called",
     distr |-> [logp |-> lp, entropy |-> Uniform(Len(lp), e)],
     critic_value |-> adv,
     c_entropy |-> ce, eps_clamp |-> eps, c_kl |-> ck,
     old_logp |-> olp, old_distr |-> od]

\* a clip that takes the upper bound for advantage >= 0
logr_clipped_ge(c, i) ==
    LET logr == LogSub(c.distr.logp[i], c.old_logp[i])
    IN  IF ~Gt(Zero, c.critic_value[i])
        THEN clamp_max(logr, LogOf(Add(One, c.eps_clamp)))
        ELSE clamp_min(logr, LogOf(Sub(One, c.eps_clamp)))

\* ppo_actor.py loss, lines 16-23: the log-ratio of item i that torch.where keeps
logr_clipped(c, i) ==
    LET logr == LogSub(c.distr.logp[i], c.old_logp[i])
    IN  IF Gt(c.critic_value[i], Zero)
        THEN clamp_max(logr, LogOf(Add(One, c.eps_clamp)))
        ELSE clamp_min(logr, LogOf(Sub(One, c.eps_clamp)))

\* ppo_actor.py loss, lines 19-23: r_clipped = torch.where(...).exp()
r_clipped(c, i) == ExpOf(logr_clipped(c, i))

\* a check that asks for old_distr whatever c_kl is
needs_old_distr_always(c_kl) == TRUE

\* ppo_actor.py loss, line 29: if c_kl != 0.
needs_old_distr(c_kl) == c_kl # Zero

\* a reduction that sums instead of averaging
reduce_sum(items) == Sum(items)

\* ppo_actor.py loss, line 35: loss.mean()
reduce(items) == Mean(items)

\* ppo_actor.py loss
loss(c) ==
    LET n == Len(c.critic_value)
        l0 == [i \in 1..n |-> Neg(Mul(r_clipped(c, i), c.critic_value[i]))]
        l1 == IF c.c_entropy # Zero
              THEN [i \in 1..n |-> Sub(l0[i], Mul(c.c_entropy, c.distr.entropy[i]))]
              ELSE l0
    IN  IF needs_old_distr(c.c_kl) /\ c.old_distr = None
        THEN [status |-> "raised", error |-> "ValueError"]
        ELSE
          LET l2 == IF needs_old_distr(c.c_kl)
                    THEN [i \in 1..n |-> Add(l1[i], Mul(c.c_kl, c.old_distr.kl[i]))]
                    ELSE l1
          IN  [status |-> "returned",
               logr_clipped |-> [i \in 1..n |-> logr_clipped(c, i)],
               r_clipped |-> [i \in 1..n |-> r_clipped(c, i)],
               loss |-> reduce(l2)]

Loss ==
    /\ call.op = "loss"
    /\ call.status = "called"
    /\ call' = loss(call) @@ call
    /\ UNCHANGED <<net, target_net, gamma, tau, attrs, ncalls>>

InitPPO ==
    /\ net = Network(<<>>, <<>>)
    /\ target_net = Network(<<>>, <<>>)
    /\ gamma = One
    /\ tau = One
    /\ attrs = {}
    /\ ncalls = 0
    /\ \E n \in 1..MaxItems :
         \E lp \in [1..n -> LogProbs], olp \in [1..n -> OldLogProbs],
            adv \in [1..n -> Advantages], e \in Entropies,
            ce \in CEntropies, eps \in EpsClamps, ck \in CKLs,
            od \in {None} \cup {[given |-> TRUE, kl |-> Uniform(n, k)] : k \in KLs} :
              call = LossCall(lp, e, adv, ce, eps, ck, olp, od)

NextPPO == Loss

SpecPPO == InitPPO /\ [][NextPPO]_vars

(***************************************************************************)
(* A2CActorContinuous.act (a2cactor.py).  The policy function returns a    *)
(* pair (mu, sigma) of tensors with one component per action dimension;    *)
(* its output for the observation of the call is an input of the call.     *)
(***************************************************************************)
ActVals == {Zero, One, NaN, PInf, NInf}

\* self._policy_function(obs): any pair of equally shaped tensors
PolicyOutputs ==
    UNION {[1..n -> ActVals] \X [1..n -> ActVals] : n \in 1..MaxActions}

ActCall(out) == [op |-> "act", policy |-> out, status |-> "called"]

\* the slip .any() for .all()
any_finite(t) == \E i \in 1..Len(t) : IsFinite(t[i])

\* torch.isfinite(t).all()
all_finite(t) == \A i \in 1..Len(t) : IsFinite(t[i])

act(c) ==
    LET action == c.policy[1]
    IN  IF ~all_finite(action)
        THEN [status |-> "raised", error |-> "ValueError"]
        ELSE [status |-> "returned", value |-> action]

Act ==
    /\ call.op = "act"
    /\ call.status = "called"
    /\ call' = act(call) @@ call
    /\ UNCHANGED <<net, target_net, gamma, tau, attrs, ncalls>>

InitAct ==
    /\ net = Network(<<>>, <<>>)
    /\ target_net = Network(<<>>, <<>>)
    /\ gamma = One
    /\ tau = One
    /\ attrs = {}
    /\ ncalls = 0
    /\ \E out \in PolicyOutputs : call = ActCall(out)

NextAct == Act

SpecAct == InitAct /\ [][NextAct]_vars

\* the return C1 states, n being the number of steps before the last
ClaimedReturn(traj, target) ==
    LET s == splitlast(traj)
        n == Len(s.trunctraj.rewards)
    IN  Add(Sum([t \in 1..n |-> Mul(Pow(gamma, t - 1), s.trunctraj.rewards[t])]),
            Mul(Mul(Sub(One, s.done), Pow(gamma, n)), value(s.lastobs, target)))

(***************************************************************************)
(* C1 as stated: critic returns, with n the number of steps before the     *)
(* split-off last step,                                                    *)
(*   sum_{t<n} gamma^t * reward_t + (1 - done) * gamma^n * value(lastobs), *)
(* the rewards summed being those n steps' and the bootstrap exponent the  *)
(* number of summed rewards.                                               *)
(***************************************************************************)
C1_BootstrappedReturn ==
    (call.op = "critic" /\ call.status # "called" /\ length(call.traj) >= 1) =>
        /\ call.status = "returned"
        /\ call.value = ClaimedReturn(call.traj, call.target)

\* the discounted sum of the rewards of the steps before the last
DiscountedRewardSum(traj) ==
    LET r == splitlast(traj).trunctraj.rewards
    IN  Sum([t \in 1..Len(r) |-> Mul(Pow(gamma, t - 1), r[t])])

Terminal(c) ==
    /\ c.op = "critic"
    /\ c.status = "returned"
    /\ splitlast(c.traj).done = One

(***************************************************************************)
(* C2 as stated: when the last transition has done = true the bootstrap    *)
(* term is exactly 0 whatever the value function returns at the last       *)
(* observation, and the result is the discounted reward sum alone.         *)
(***************************************************************************)
C2_TerminalBootstrapZero ==
    Terminal(call) =>
        /\ call.bootstrap = Zero
        /\ call.value = DiscountedRewardSum(call.traj)

\* what holds of the code: with a finite value at the last observation the
\* bootstrap term is 0 and the result is the sum critic formed
C2_TerminalBootstrapZeroFinite ==
    (Terminal(call) /\ IsFinite(value(splitlast(call.traj).lastobs, call.target))) =>
        /\ call.bootstrap = Zero
        /\ call.value = call.rewardsum

IsMutation(e) == e \in {"step", "soft_update"}

(***************************************************************************)
(* C3 as stated: every call of the critic's optimize that completes has    *)
(* made, in this order, exactly one gradient step on the live value        *)
(* function and then one soft update of the target with the critic's tau.  *)
(***************************************************************************)
C3_StepThenSync ==
    (call.op = "A2CValueCritic.optimize" /\ call.status = "returned") =>
        /\ SelectSeq(call.trace, IsMutation) = <<"step", "soft_update">>
        /\ target_net = soft_update(net, call.pre.target_net, tau)

(***************************************************************************)
(* C7 as stated: the critic's optimize fails whenever the computed loss is *)
(* non-finite, and then the optimizer step is not applied: the live and    *)
(* the target parameters are as they were before the call.                 *)
(***************************************************************************)
C7_NonFiniteLossFails ==
    (/\ call.op = "A2CValueCritic.optimize"
     /\ "loss" \in DOMAIN call
     /\ ~IsFinite(call.loss)) =>
        /\ call.status = "raised"
        /\ net = call.pre.net
        /\ target_net = call.pre.target_net

(***************************************************************************)
(* C8: loss raises the missing-argument error whenever c_kl # 0 and        *)
(* old_distr is not supplied, and never raises it when c_kl = 0, with or   *)
(* without old_distr.                                                      *)
(***************************************************************************)
C8_MissingOldDistr ==
    (call.op = "loss" /\ call.status # "called") =>
        /\ (call.c_kl # Zero /\ call.old_distr = None) =>
               (call.status = "raised" /\ call.error = "ValueError")
        /\ call.c_kl = Zero => call.status = "returned"

\* a call with c_kl # 0 and no old_distr has raised
C8_Witness ==
    /\ call.op = "loss"
    /\ call.c_kl # Zero
    /\ call.old_distr = None
    /\ call.status = "raised"

\* x <= y for log-domain numbers
LogLe(x, y) == Sign(Sub(y.exp, x.exp)) >= 0

LogMin(x, y) == IF LogLe(x, y) THEN x ELSE y

LogMax(x, y) == IF LogLe(x, y) THEN y ELSE x

LogRatio(c, i) == LogSub(c.distr.logp[i], c.old_logp[i])

(***************************************************************************)
(* C9: for every item the log-ratio used is min(log_ratio,                 *)
(* log(1 + eps_clamp)) when advantage > 0, with no lower bound, and        *)
(* max(log_ratio, log(1 - eps_clamp)) when advantage <= 0 (0 included),    *)
(* with no upper bound.                                                    *)
(***************************************************************************)
C9_AsymmetricClip ==
    (call.op = "loss" /\ call.status = "returned") =>
        \A i \in 1..Len(call.critic_value) :
            IF Sign(call.critic_value[i]) > 0
            THEN call.logr_clipped[i] =
                     LogMin(LogRatio(call, i), LogOf(Add(One, call.eps_clamp)))
            ELSE call.logr_clipped[i] =
                     LogMax(LogRatio(call, i), LogOf(Sub(One, call.eps_clamp)))

\* a batch of two: a positive advantage whose log-ratio lies under
\* log(1 - eps) and is kept, and a zero advantage whose log-ratio lies over
\* log(1 + eps) and is kept
C9_Witness ==
    /\ call.op = "loss"
    /\ call.status = "returned"
    /\ call.eps_clamp = Half
    /\ Len(call.critic_value) = 2
    /\ call.critic_value[1] = One
    /\ LogRatio(call, 1) = LogOf(Fin(1, 4))
    /\ call.logr_clipped[1] = LogOf(Fin(1, 4))
    /\ call.critic_value[2] = Zero
    /\ LogRatio(call, 2) = LogOf(Two)
    /\ call.logr_clipped[2] = LogOf(Two)

\* a returned call with positive advantages, eps_clamp > 0 and ratio 1
RatioOneCall(c) ==
    /\ c.op = "loss"
    /\ c.status = "returned"
    /\ Sign(c.eps_clamp) > 0
    /\ \A i \in 1..Len(c.critic_value) :
           /\ Sign(c.critic_value[i]) > 0
           /\ c.old_logp[i] = c.distr.logp[i]

(***************************************************************************)
(* C10 as stated: with advantage > 0 on every item, eps_clamp > 0 and      *)
(* old_logp equal to log_prob(actions), the loss returned is               *)
(* -mean(advantage).                                                       *)
(***************************************************************************)
C10_RatioOneLoss ==
    RatioOneCall(call) => call.loss = Neg(Mean(call.critic_value))

(***************************************************************************)
(* C10 as amended: the same, for calls with c_entropy = 0 and c_kl = 0.    *)
(***************************************************************************)
C10_RatioOneLossNoPenalty ==
    (RatioOneCall(call) /\ call.c_entropy = Zero /\ call.c_kl = Zero) =>
        call.loss = Neg(Mean(call.critic_value))

\* such a call on two items of different advantage
C10_Witness ==
    /\ RatioOneCall(call)
    /\ call.c_entropy = Zero
    /\ call.c_kl = Zero
    /\ Len(call.critic_value) = 2
    /\ call.critic_value[1] # call.critic_value[2]
    /\ call.loss = Fin(-3, 2)

AllFinite(s) == \A i \in 1..Len(s) : IsFinite(s[i])

IsSync(c) == c.op \in {"soft_update", "hard_update"}

C5_HardUpdateCopies ==
    call.op = "hard_update" =>
        /\ \A i \in 1..ZipLen(target_net.params, net.params) :
               target_net.params[i] = net.params[i]
        /\ SameTopology(net, call.pre) => target_net.params = net.params
        /\ hard_update(net, target_net) = target_net

\* a hard_update that overwrote every one of two or more differing parameters
C5_Witness ==
    /\ call.op = "hard_update"
    /\ SameTopology(net, call.pre)
    /\ Len(net.params) >= 2
    /\ \A i \in 1..Len(net.params) : call.pre.params[i] # net.params[i]
    /\ target_net.params = net.params

(***************************************************************************)
(* C6 as stated: soft_update and hard_update fail when the two networks    *)
(* differ in topology; none completes having synchronized a prefix.        *)
(***************************************************************************)
C6_MismatchFails ==
    (IsSync(call) /\ ~SameTopology(net, call.pre)) => call.status = "raised"

\* an act call that has completed, either way
ActDone == call.op = "act" /\ call.status # "called"

(***************************************************************************)
(* C11 as stated: act fails whenever any continuous output of the policy   *)
(* function (a component of the mean or of the standard deviation) is      *)
(* non-finite; when all outputs are finite it returns the mean.            *)
(***************************************************************************)
C11_NonFiniteOutputFails ==
    ActDone =>
        IF AllFinite(call.policy[1]) /\ AllFinite(call.policy[2])
        THEN call.status = "returned" /\ call.value = call.policy[1]
        ELSE call.status = "raised"

(***************************************************************************)
(* C11 amended: act fails whenever any component of the mean returned by   *)
(* the policy function is non-finite, so no non-finite action is ever      *)
(* returned; when every component of the mean is finite, act returns the   *)
(* mean, whatever the standard deviation is.                               *)
(***************************************************************************)
C11_NonFiniteMeanFails ==
    ActDone =>
        /\ ~AllFinite(call.policy[1]) =>
               call.status = "raised" /\ call.error = "ValueError"
        /\ AllFinite(call.policy[1]) =>
               call.status = "returned" /\ call.value = call.policy[1]
        /\ call.status = "returned" => AllFinite(call.value)

\* a failed call whose mean had one finite and one non-finite component
C11_Witness ==
    /\ ActDone
    /\ call.status = "raised"
    /\ Len(call.policy[1]) >= 2
    /\ IsFinite(call.policy[1][1])
    /\ ~IsFinite(call.policy[1][2])

====
